---- MODULE Spec2Model ----
(***************************************************************************)
(* A model of tmpacc/TemporalAccumulator.py: the Interval stepping rule,   *)
(* the Calendar of daily instants, the category grouping and the           *)
(* TemporalAccumulator constructor.                                        *)
(*                                                                         *)
(* The source's last method, accumulate, is unfinished: its loop body ends  *)
(* in an incomplete assignment (line 196).  Each function is modelled from *)
(* its text; accumulate is modelled up to the lookup that raises before    *)
(* the incomplete statement.                                               *)
(*                                                                         *)
(* A datetime is a record [year, month, day, ms], ms being the time of day *)
(* in milliseconds.  A call's outcome is a record [exc, value]: exc is ""  *)
(* when the call returns value, and the exception's name when it raises.   *)
(***************************************************************************)
EXTENDS Integers, Sequences, FiniteSets, TLC

VARIABLES
    \* Interval.next: the Interval, the dates it is called with, in call
    \* order, and the outcome of each call made so far.  In a
    \* TemporalAccumulator, interval is self.interval.
    interval, from_dates, next_dates,
    \* Calendar: the constructor's arguments, the object's start, end and
    \* series, generate_dates' locals current and dates, where the
    \* construction stands (cpc) and the exception it raised (cexc).
    cal_args, start, end, series, current, dates, cpc, cexc,
    \* TemporalAccumulator: the constructor's arguments, the object's
    \* fields, where the construction stands (apc) and the exception it
    \* raised (aexc).
    ta_args, temporal_dimension, catagories, quantities, static_maps,
    calendar, processed_data, apc, aexc,
    \* categorize: its local categorization_map, the row index i of its
    \* loop (krow), where the call stands (kpc), the exception it raised
    \* (kexc) and the value it returned (grouping).
    categorization_map, krow, kpc, kexc, grouping

ivars == <<interval, from_dates, next_dates>>

cvars == <<cal_args, start, end, series, current, dates, cpc, cexc>>

avars == <<ta_args, temporal_dimension, catagories, quantities, static_maps,
           calendar, processed_data, apc, aexc>>

kvars == <<categorization_map, krow, kpc, kexc, grouping>>

vars == <<ivars, cvars, avars, kvars>>

\* ------------------------------------------------------------------------
\* Bounds of the model
\* ------------------------------------------------------------------------

\* Interval scalars are drawn from 1..MaxScalar.
MaxScalar == 2

\* A Calendar's end lies at most MaxSpan days after its start.
MaxSpan == 3

\* A series has at most MaxRows rows.
MaxRows == 3

\* categorize is given at most MaxDims category dimensions.
MaxDims == 2

\* ------------------------------------------------------------------------
\* datetime and timedelta, as the source uses them
\* ------------------------------------------------------------------------

MsPerDay == 86400000

MAXYEAR == 9999

NoDate == [year |-> 0, month |-> 0, day |-> 0, ms |-> 0]

Returns(v) == [exc |-> "", value |-> v]

Raises(e) == [exc |-> e, value |-> NoDate]

MkDate(y, m, d, t) == [year |-> y, month |-> m, day |-> d, ms |-> t]

\* datetime's own calendar: the validity test of replace() and the ordinal
\* arithmetic behind datetime + timedelta.
StdIsLeap(y) == y % 4 = 0 /\ (y % 100 # 0 \/ y % 400 = 0)

StdDaysInMonth(y, m) ==
    IF m = 2 THEN (IF StdIsLeap(y) THEN 29 ELSE 28)
    ELSE IF m \in {4, 6, 9, 11} THEN 30 ELSE 31

DaysBeforeYear(y) ==
    (y - 1) * 365 + ((y - 1) \div 4) - ((y - 1) \div 100) + ((y - 1) \div 400)

RECURSIVE DaysBeforeMonth(_, _)
DaysBeforeMonth(y, m) ==
    IF m = 1 THEN 0 ELSE DaysBeforeMonth(y, m - 1) + StdDaysInMonth(y, m - 1)

Ymd2Ord(y, m, d) == DaysBeforeYear(y) + DaysBeforeMonth(y, m) + d

ToOrdinal(dt) == Ymd2Ord(dt.year, dt.month, dt.day)

\* The (year, month, day) of a proleptic Gregorian ordinal, by 400-, 100-,
\* 4- and 1-year cycles.
Ord2Ymd(ord) ==
    LET n0 == ord - 1
        n400 == n0 \div 146097
        r400 == n0 % 146097
        n100 == r400 \div 36524
        r100 == r400 % 36524
        n4 == r100 \div 1461
        r4 == r100 % 1461
        n1 == r4 \div 365
        n == r4 % 365
        year == n400 * 400 + 1 + n100 * 100 + n4 * 4 + n1
        m == CHOOSE mm \in 1..12 :
                /\ DaysBeforeMonth(year, mm) <= n
                /\ n < DaysBeforeMonth(year, mm) + StdDaysInMonth(year, mm)
    IN  IF n1 = 4 \/ n100 = 4
        THEN <<year - 1, 12, 31>>
        ELSE <<year, m, n - DaysBeforeMonth(year, m) + 1>>

\* from_date + timedelta(days, ms): the delta is normalised to whole days
\* and a time of day, the sum carries into the ordinal, and a result past
\* year 9999 raises OverflowError.
DateAdd(dt, days, ms) ==
    LET t == dt.ms + (ms % MsPerDay)
        ord == ToOrdinal(dt) + days + (ms \div MsPerDay) + (t \div MsPerDay)
        ymd == Ord2Ymd(ord)
    IN  IF ymd[1] > MAXYEAR
        THEN Raises("OverflowError")
        ELSE Returns(MkDate(ymd[1], ymd[2], ymd[3], t % MsPerDay))

\* from_date.replace(year=, month=, day=): ValueError when the fields name
\* no date.
DateReplace(dt, y, m, d) ==
    IF y >= 1 /\ y <= MAXYEAR /\ m \in 1..12 /\ d >= 1 /\ d <= StdDaysInMonth(y, m)
    THEN Returns(MkDate(y, m, d, dt.ms))
    ELSE Raises("ValueError")

\* a < b and a <= b on datetimes: field by field, most significant first.
DateLess(a, b) ==
    \/ a.year < b.year
    \/ a.year = b.year /\ a.month < b.month
    \/ a.year = b.year /\ a.month = b.month /\ a.day < b.day
    \/ a.year = b.year /\ a.month = b.month /\ a.day = b.day /\ a.ms < b.ms

DateLeq(a, b) == a = b \/ DateLess(a, b)

\* ------------------------------------------------------------------------
\* Interval
\* ------------------------------------------------------------------------

FixedUnits == {"Milliseconds", "Seconds", "Minutes", "Hours", "Days", "Weeks"}

TemporalBaseUnits == FixedUnits \cup {"Months", "Years"}

\* The timedelta of one step of a fixed-duration unit, as <<days, ms>>.
UnitDelta(unit, scalar) ==
    CASE unit = "Milliseconds" -> <<0, scalar>>
      [] unit = "Seconds" -> <<0, scalar * 1000>>
      [] unit = "Minutes" -> <<0, scalar * 60000>>
      [] unit = "Hours" -> <<0, scalar * 3600000>>
      [] unit = "Days" -> <<scalar, 0>>
      [] unit = "Weeks" -> <<7 * scalar, 0>>

\* The target <<year, month>> of a Months step.
MonthsTargetNoCarry(from_date, scalar) ==
    <<from_date.year, ((from_date.month - 1 + scalar) % 12) + 1>>

MonthsTarget(from_date, scalar) ==
    LET month == from_date.month - 1 + scalar
    IN  <<from_date.year + (month \div 12), (month % 12) + 1>>

\* The month-length table of the Months step.
MonthLengthEveryFourth(year, month) ==
    <<31, IF year % 4 = 0 THEN 29 ELSE 28, 31, 30, 31, 30, 31, 31, 30, 31, 30, 31>>[month]

MonthLength(year, month) ==
    <<31,
      IF (year % 4 = 0 /\ ~(year % 100 = 0)) \/ year % 400 = 0 THEN 29 ELSE 28,
      31, 30, 31, 30,
      31, 31, 30, 31,
      30, 31>>[month]

ClampDayWrap(day, length) == IF day > length THEN day - length ELSE day

ClampDay(day, length) == IF day <= length THEN day ELSE length

IntervalNext(iv, from_date) ==
    IF iv.unit \in FixedUnits
    THEN DateAdd(from_date, UnitDelta(iv.unit, iv.scalar)[1], UnitDelta(iv.unit, iv.scalar)[2])
    ELSE IF iv.unit = "Months"
    THEN LET ym == MonthsTarget(from_date, iv.scalar)
             day == ClampDay(from_date.day, MonthLength(ym[1], ym[2]))
         IN  DateReplace(from_date, ym[1], ym[2], day)
    ELSE IF iv.unit = "Years"
    THEN LET try == DateReplace(from_date, from_date.year + iv.scalar,
                                from_date.month, from_date.day)
         IN  IF try.exc = "ValueError"
             THEN DateReplace(from_date, from_date.year + iv.scalar, 2, 28)
             ELSE try
    ELSE Raises("ValueError")

\* One call of interval.next(from_date), with the next date of from_dates.
Interval_next ==
    /\ Len(next_dates) < Len(from_dates)
    /\ next_dates' = Append(next_dates, IntervalNext(interval, from_dates[Len(next_dates) + 1]))
    /\ UNCHANGED <<interval, from_dates>>

\* ------------------------------------------------------------------------
\* Calendar
\* ------------------------------------------------------------------------

\* A constructor argument is a datetime (form "datetime") or a string.  A
\* string is given by its form and the fields its digits spell:
\* "YYYY-MM-DD" (the time of day is then 0), "YYYY-MM-DDTHH:MM:SS", or any
\* other text (form "other").
DateArg(dt) == [form |-> "datetime", dt |-> dt]

StrArg(form, y, m, d, t) == [form |-> form, dt |-> MkDate(y, m, d, t)]

\* datetime.fromisoformat on a string of the right shape: ValueError when
\* the fields name no date.
FromIsoFormat(f) ==
    IF f.year >= 1 /\ f.month \in 1..12 /\ f.day >= 1
       /\ f.day <= StdDaysInMonth(f.year, f.month) /\ f.ms < MsPerDay
    THEN Returns(f)
    ELSE Raises("ValueError")

fromstr(date_str) ==
    IF date_str.form = "YYYY-MM-DD"
    THEN FromIsoFormat([date_str.dt EXCEPT !.ms = 0])
    ELSE IF date_str.form = "YYYY-MM-DDTHH:MM:SS"
    THEN FromIsoFormat(date_str.dt)
    ELSE Raises("ValueError")

\* start if isinstance(start, datetime) else self.fromstr(start)
AsDatetime(arg) == IF arg.form = "datetime" THEN Returns(arg.dt) ELSE fromstr(arg)

\* The test of generate_dates' while loop.
ContinueUntilEqual(cur, last) == cur # last

ContinueBefore(cur, last) == DateLess(cur, last)

Continue(cur, last) == DateLeq(cur, last)

\* Calendar.__init__ up to the first test of generate_dates' loop.
Calendar_init ==
    /\ cpc = "new"
    /\ LET s == AsDatetime(cal_args.start)
           e == AsDatetime(cal_args.end)
       IN  IF s.exc # "" \/ e.exc # ""
           THEN /\ cpc' = "raised"
                /\ cexc' = "ValueError"
                /\ start' = IF s.exc = "" THEN s.value ELSE start
                /\ UNCHANGED <<end, current, dates>>
           ELSE /\ start' = s.value
                /\ end' = e.value
                /\ dates' = <<>>
                /\ current' = s.value
                /\ cpc' = "loop"
                /\ UNCHANGED cexc
    /\ UNCHANGED <<cal_args, series>>

\* One turn of the loop: dates.append(current); current += timedelta(days=1)
generate_dates_loop ==
    /\ cpc = "loop"
    /\ Continue(current, end)
    /\ dates' = Append(dates, current)
    /\ LET n == DateAdd(current, 1, 0)
       IN  IF n.exc = ""
           THEN current' = n.value /\ UNCHANGED <<cpc, cexc>>
           ELSE cpc' = "raised" /\ cexc' = n.exc /\ UNCHANGED current
    /\ UNCHANGED <<cal_args, start, end, series>>

\* The loop ends: self.series = dates.
generate_dates_return ==
    /\ cpc = "loop"
    /\ ~Continue(current, end)
    /\ series' = dates
    /\ cpc' = "done"
    /\ UNCHANGED <<cal_args, start, end, current, dates, cexc>>

\* ------------------------------------------------------------------------
\* Python values, DataSeries
\* ------------------------------------------------------------------------

\* A dict is its entries [key, value] in insertion order; a list is its
\* elements; Unset is an attribute not assigned yet.
PyNone == [type |-> "NoneType", items |-> <<>>]

PyList(xs) == [type |-> "list", items |-> xs]

PyDict(entries) == [type |-> "dict", items |-> entries]

Unset == [type |-> "unset", items |-> <<>>]

\* DataSeries.__init__ keeps the series and the affinity; the aggregation
\* it is called with is not stored.
DataSeries(call) == [series |-> call.series, affinity |-> call.affinity]

DataSeriesCall(s, affinity, aggregation) ==
    [series |-> s, affinity |-> affinity, aggregation |-> aggregation]

Range(f) == {f[i] : i \in DOMAIN f}

\* ------------------------------------------------------------------------
\* TemporalAccumulator.categorize
\* ------------------------------------------------------------------------

\* The position of key among d's entries, 0 when d has no such key.
KeyIndex(d, key) ==
    IF \E i \in DOMAIN d.items : d.items[i].key = key
    THEN CHOOSE i \in DOMAIN d.items : d.items[i].key = key
    ELSE 0

\* d[key] = value for a key d does not hold: the entry goes last.
DictSetNewFirst(d, key, value) ==
    PyDict(<<[key |-> key, value |-> value]>> \o d.items)

DictSetNew(d, key, value) ==
    PyDict(Append(d.items, [key |-> key, value |-> value]))

\* What one row does to the map: along the row's values, one per category
\* dimension, each value missing from the current level is given an empty
\* dict, and the walk goes on in the value's dict.
RECURSIVE InsertRow(_, _)
InsertRow(d, path) ==
    IF path = <<>>
    THEN d
    ELSE LET d1 == IF KeyIndex(d, Head(path)) = 0
                   THEN DictSetNew(d, Head(path), PyDict(<<>>))
                   ELSE d
             i == KeyIndex(d1, Head(path))
         IN  PyDict([d1.items EXCEPT ![i].value = InsertRow(@, Tail(path))])

\* The values of row i (counted from 0), one per category dimension.
RowValues(cats, i) == [j \in 1..Len(cats) |-> cats[j].series[i + 1]]

\* sub_category[i] raises IndexError in a dimension that has no row i.
RowIndexError(cats, i) == \E j \in 2..Len(cats) : i >= Len(cats[j].series)

\* categorize is called: the map starts empty, or as the one group
\* "__all__" when there is no category dimension.
categorize_call ==
    /\ kpc = "call"
    /\ categorization_map' =
          IF Len(catagories) = 0
          THEN DictSetNew(PyDict(<<>>), "__all__", PyList(temporal_dimension.series))
          ELSE PyDict(<<>>)
    /\ krow' = 0
    /\ kpc' = "loop"
    /\ UNCHANGED <<kexc, grouping>>

\* One row of the loop over the first category dimension.
categorize_row ==
    /\ kpc = "loop"
    /\ Len(catagories) > 0
    /\ krow < Len(catagories[1].series)
    /\ IF RowIndexError(catagories, krow)
       THEN /\ kpc' = "raised"
            /\ kexc' = "IndexError"
            /\ UNCHANGED <<categorization_map, krow>>
       ELSE /\ categorization_map' = InsertRow(categorization_map, RowValues(catagories, krow))
            /\ krow' = krow + 1
            /\ UNCHANGED <<kpc, kexc>>
    /\ UNCHANGED grouping

categorize_return ==
    /\ kpc = "loop"
    /\ IF Len(catagories) = 0 THEN TRUE ELSE krow >= Len(catagories[1].series)
    /\ grouping' = categorization_map
    /\ kpc' = "done"
    /\ UNCHANGED <<categorization_map, krow, kexc>>

\* ------------------------------------------------------------------------
\* TemporalAccumulator.__init__ and accumulate
\* ------------------------------------------------------------------------

\* catagories and quantities: a list is kept, one DataSeries is wrapped in
\* a list unless it is empty (its truth value is its length), and anything
\* else gives [].
SeriesList(arg) ==
    IF arg.form = "list"
    THEN [j \in DOMAIN arg.list |-> DataSeries(arg.list[j])]
    ELSE IF arg.form = "DataSeries" /\ Len(arg.list[1].series) > 0
    THEN <<DataSeries(arg.list[1])>>
    ELSE <<>>

\* static_maps if static_maps else []
StaticMaps(arg) == IF arg.form = "list" THEN arg.list ELSE <<>>

\* accumulate: with no category dimension the loop does nothing and the
\* call returns None; with one, the lookup accumulation_map[category] in
\* the empty map raises KeyError (the unfinished assignment of the loop
\* body comes after it).
accumulate(cats) ==
    IF Len(cats) = 0
    THEN [exc |-> "", value |-> PyNone]
    ELSE [exc |-> "KeyError", value |-> Unset]

\* The end of __init__: self.calendar, self.interval and
\* self.processed_data = self.accumulate().
InitTail(cats) ==
    /\ calendar' = <<[start |-> start, end |-> end, series |-> series]>>
    /\ interval' = ta_args.interval
    /\ processed_data' = accumulate(cats).value
    /\ aexc' = accumulate(cats).exc
    /\ apc' = IF accumulate(cats).exc = "" THEN "done" ELSE "raised"

\* __init__ up to self.calendar: with a calendar that is given and not
\* empty (a Calendar's truth value is its length) the construction runs to
\* its end; otherwise Calendar(series[0], series[-1]) is called.
TemporalAccumulator_init ==
    /\ apc = "new"
    /\ cpc = (IF ta_args.calendar = "None" THEN "idle" ELSE "done")
    /\ temporal_dimension' = ta_args.temporal_dimension
    /\ catagories' = SeriesList(ta_args.catagories)
    /\ quantities' = SeriesList(ta_args.quantities)
    /\ static_maps' = StaticMaps(ta_args.static_maps)
    /\ IF ta_args.calendar # "None" /\ Len(series) > 0
       THEN /\ InitTail(SeriesList(ta_args.catagories))
            /\ UNCHANGED cvars
       ELSE IF Len(ta_args.temporal_dimension.series) = 0
       THEN /\ apc' = "raised"
            /\ aexc' = "IndexError"
            /\ UNCHANGED <<calendar, interval, processed_data, cvars>>
       ELSE /\ cal_args' =
                  [start |-> ta_args.temporal_dimension.series[1],
                   end |-> ta_args.temporal_dimension.series[
                               Len(ta_args.temporal_dimension.series)]]
            /\ start' = NoDate
            /\ end' = NoDate
            /\ series' = <<>>
            /\ current' = NoDate
            /\ dates' = <<>>
            /\ cpc' = "new"
            /\ apc' = "calendar"
            /\ UNCHANGED <<calendar, interval, processed_data, aexc, cexc>>
    /\ UNCHANGED <<ta_args, from_dates, next_dates>>

\* The default Calendar is built: __init__ runs to its end.
TemporalAccumulator_calendar ==
    /\ apc = "calendar"
    /\ cpc = "done"
    /\ InitTail(catagories)
    /\ UNCHANGED <<ta_args, temporal_dimension, catagories, quantities, static_maps,
                   from_dates, next_dates, cvars>>

\* The default Calendar's construction raised: so does __init__.
TemporalAccumulator_calendar_raised ==
    /\ apc = "calendar"
    /\ cpc = "raised"
    /\ apc' = "raised"
    /\ aexc' = cexc
    /\ UNCHANGED <<ta_args, temporal_dimension, catagories, quantities, static_maps,
                   calendar, processed_data, ivars, cvars>>

\* ------------------------------------------------------------------------
\* Inputs and specifications
\* ------------------------------------------------------------------------

NoIntervalCall ==
    /\ interval = [unit |-> "Days", scalar |-> 1]
    /\ from_dates = <<>>
    /\ next_dates = <<>>

NoCalendarCall ==
    /\ cal_args = [start |-> DateArg(NoDate), end |-> DateArg(NoDate)]
    /\ start = NoDate
    /\ end = NoDate
    /\ series = <<>>
    /\ current = NoDate
    /\ dates = <<>>
    /\ cpc = "idle"
    /\ cexc = ""

NoSeriesArg == [form |-> "None", list |-> <<>>]

NoAccumulator ==
    /\ ta_args = [temporal_dimension |-> DataSeries(DataSeriesCall(<<>>, "Temporal", "Identity")),
                  catagories |-> NoSeriesArg, quantities |-> NoSeriesArg,
                  static_maps |-> NoSeriesArg, calendar |-> "None",
                  interval |-> [unit |-> "Days", scalar |-> 1]]
    /\ temporal_dimension = DataSeries(DataSeriesCall(<<>>, "Temporal", "Identity"))
    /\ catagories = <<>>
    /\ quantities = <<>>
    /\ static_maps = <<>>
    /\ calendar = <<>>
    /\ processed_data = Unset
    /\ apc = "idle"
    /\ aexc = ""

NoCategorizeCall ==
    /\ categorization_map = PyDict(<<>>)
    /\ krow = 0
    /\ kpc = "idle"
    /\ kexc = ""
    /\ grouping = Unset

\* The sequences over S of at most n elements.
SeqsUpTo(S, n) == UNION {[1..m -> S] : m \in 0..n}

\* The dates the calls are made with: the ends of January, February and
\* December, in a year before a leap century year, a common year, a leap
\* year and a year before a common century year, at the first and the last
\* millisecond of the day.
InputYears == {1999, 2023, 2024, 2099}

InputDates ==
    {MkDate(y, m, d, t) : y \in InputYears, m \in {1, 2, 12}, d \in 28..31,
                          t \in {0, MsPerDay - 1}}
    \cap {dt \in [year : InputYears, month : {1, 2, 12}, day : 28..31,
                   ms : {0, MsPerDay - 1}] : dt.day <= StdDaysInMonth(dt.year, dt.month)}

InputIntervals ==
    [unit : TemporalBaseUnits \cup {"Fortnights"}, scalar : 1..MaxScalar]

InitInterval ==
    /\ interval \in InputIntervals
    /\ from_dates \in {<<a, b>> : a \in InputDates, b \in InputDates}
    /\ next_dates = <<>>
    /\ NoCalendarCall
    /\ NoAccumulator
    /\ NoCategorizeCall

NextInterval == Interval_next /\ UNCHANGED <<cvars, avars, kvars>>

SpecInterval == InitInterval /\ [][NextInterval]_vars

\* The instant at time of day t on the day of ordinal ord.
OrdDate(ord, t) == MkDate(Ord2Ymd(ord)[1], Ord2Ymd(ord)[2], Ord2Ymd(ord)[3], t)

TimesOfDay == {0, 43200000, MsPerDay - 1}

CalendarStarts ==
    {MkDate(2024, 2, 28, 0), MkDate(2023, 12, 30, 43200000),
     MkDate(2100, 2, 27, MsPerDay - 1)}

\* The instants from two days before s to MaxSpan days after it.
CalendarEnds(s) ==
    {OrdDate(ToOrdinal(s) + k, t) : k \in (0 - 2)..MaxSpan, t \in TimesOfDay}

\* Calendar('2025-01-01', '2025-03-05') is the call the module itself
\* makes; the other strings are a range with times of day, a range whose
\* end names no date, and a string of neither form.
StringCalendarArgs ==
    {[start |-> StrArg("YYYY-MM-DD", 2025, 1, 1, 0),
      end |-> StrArg("YYYY-MM-DD", 2025, 3, 5, 0)],
     [start |-> StrArg("YYYY-MM-DDTHH:MM:SS", 2024, 2, 28, 43200000),
      end |-> StrArg("YYYY-MM-DDTHH:MM:SS", 2024, 3, 1, 0)],
     [start |-> StrArg("YYYY-MM-DD", 2025, 2, 27, 0),
      end |-> StrArg("YYYY-MM-DD", 2025, 2, 30, 0)],
     [start |-> StrArg("other", 0, 0, 0, 0),
      end |-> StrArg("YYYY-MM-DD", 2025, 3, 5, 0)],
     [start |-> DateArg(MkDate(2025, 1, 1, 0)),
      end |-> StrArg("YYYY-MM-DD", 2025, 1, 3, 0)]}

CalendarArgs ==
    UNION {{[start |-> DateArg(s), end |-> DateArg(e)] : e \in CalendarEnds(s)} :
              s \in CalendarStarts}
    \cup StringCalendarArgs

NewCalendar(args) ==
    /\ cal_args \in args
    /\ start = NoDate
    /\ end = NoDate
    /\ series = <<>>
    /\ current = NoDate
    /\ dates = <<>>
    /\ cpc = "new"
    /\ cexc = ""

InitCalendar ==
    /\ NewCalendar(CalendarArgs)
    /\ NoIntervalCall
    /\ NoAccumulator
    /\ NoCategorizeCall

NextCalendar ==
    \/ Calendar_init /\ UNCHANGED <<ivars, avars, kvars>>
    \/ generate_dates_loop /\ UNCHANGED <<ivars, avars, kvars>>
    \/ generate_dates_return /\ UNCHANGED <<ivars, avars, kvars>>

SpecCalendar == InitCalendar /\ [][NextCalendar]_vars

\* The values of the j-th category dimension.
DimValues(j) ==
    IF j = 1 THEN {"a", "b"} ELSE IF j = 2 THEN {"x", "y"} ELSE {"a", "x"}

DimSeries(j) ==
    {DataSeries(DataSeriesCall(s, "Categorical", "Identity")) :
        s \in SeqsUpTo(DimValues(j), MaxRows)}

\* The lists of k category dimensions, of any lengths.
RECURSIVE CategoryLists(_)
CategoryLists(k) ==
    IF k = 0
    THEN {<<>>}
    ELSE {Append(c, ds) : c \in CategoryLists(k - 1), ds \in DimSeries(k)}

Day1 == DateArg(MkDate(2024, 2, 28, 0))

Day2 == DateArg(MkDate(2024, 2, 29, 0))

Day3 == DateArg(MkDate(2024, 3, 1, 0))

\* An accumulator whose fields are set (by lines 161-166), on which
\* categorize is called.
InitCategorize ==
    /\ ta_args = [temporal_dimension |-> DataSeries(DataSeriesCall(<<>>, "Temporal", "Identity")),
                  catagories |-> NoSeriesArg, quantities |-> NoSeriesArg,
                  static_maps |-> NoSeriesArg, calendar |-> "None",
                  interval |-> [unit |-> "Days", scalar |-> 1]]
    /\ temporal_dimension \in
          {DataSeries(DataSeriesCall(s, "Temporal", "Identity")) :
              s \in {<<>>, <<Day1, Day2>>}}
    /\ catagories \in UNION {CategoryLists(k) : k \in 0..MaxDims}
    /\ quantities = <<>>
    /\ static_maps = <<>>
    /\ calendar = <<>>
    /\ processed_data = Unset
    /\ apc = "idle"
    /\ aexc = ""
    /\ categorization_map = PyDict(<<>>)
    /\ krow = 0
    /\ kpc = "call"
    /\ kexc = ""
    /\ grouping = Unset
    /\ NoIntervalCall
    /\ NoCalendarCall

NextCategorize ==
    \/ categorize_call /\ UNCHANGED <<ivars, cvars, avars>>
    \/ categorize_row /\ UNCHANGED <<ivars, cvars, avars>>
    \/ categorize_return /\ UNCHANGED <<ivars, cvars, avars>>

SpecCategorize == InitCategorize /\ [][NextCategorize]_vars

\* The temporal dimensions: every series of at most MaxRows of three
\* consecutive days, in any order, and two series of date strings, the
\* second ending in a string that names no date.
TemporalSeries ==
    SeqsUpTo({Day1, Day2, Day3}, MaxRows)
    \cup {<<StrArg("YYYY-MM-DD", 2025, 1, 1, 0), StrArg("YYYY-MM-DD", 2025, 1, 2, 0)>>,
          <<StrArg("YYYY-MM-DD", 2025, 2, 27, 0), StrArg("YYYY-MM-DD", 2025, 2, 30, 0)>>}

TemporalDimensions ==
    {DataSeries(DataSeriesCall(s, "Temporal", "Identity")) : s \in TemporalSeries}

CategoryArgs ==
    {NoSeriesArg,
     [form |-> "DataSeries", list |-> <<DataSeriesCall(<<>>, "Categorical", "Identity")>>],
     [form |-> "DataSeries", list |-> <<DataSeriesCall(<<"a", "b">>, "Categorical", "Identity")>>],
     [form |-> "list", list |-> <<>>],
     [form |-> "list", list |-> <<DataSeriesCall(<<"a", "a", "b">>, "Categorical", "Identity")>>]}

\* The quantity series: at most MaxRows distinct values of 1..3.
QuantitySeries ==
    {s \in SeqsUpTo(1..3, MaxRows) : \A i, j \in DOMAIN s : s[i] = s[j] => i = j}

QuantityArgs ==
    {NoSeriesArg}
    \cup {[form |-> "DataSeries", list |-> <<DataSeriesCall(s, "Numerical", "CumulativeSum")>>] :
             s \in QuantitySeries}
    \cup {[form |-> "list", list |-> <<DataSeriesCall(<<1, 2>>, "Numerical", "Identity"),
                                       DataSeriesCall(<<3>>, "Numerical", "MaxValue")>>]}

StaticMapArgs == {NoSeriesArg, [form |-> "list", list |-> <<"static">>]}

AccumulatorCalendarArgs ==
    {[start |-> Day1, end |-> Day3], [start |-> Day3, end |-> Day1]}

InitAccumulator ==
    /\ ta_args \in [temporal_dimension : TemporalDimensions,
                    catagories : CategoryArgs,
                    quantities : QuantityArgs,
                    static_maps : StaticMapArgs,
                    calendar : {"None", "Calendar"},
                    interval : {[unit |-> "Days", scalar |-> 1]}]
    /\ temporal_dimension = DataSeries(DataSeriesCall(<<>>, "Temporal", "Identity"))
    /\ catagories = <<>>
    /\ quantities = <<>>
    /\ static_maps = <<>>
    /\ calendar = <<>>
    /\ processed_data = Unset
    /\ apc = "new"
    /\ aexc = ""
    /\ IF ta_args.calendar = "None"
       THEN NoCalendarCall
       ELSE NewCalendar(AccumulatorCalendarArgs)
    /\ NoIntervalCall
    /\ NoCategorizeCall

NextAccumulator ==
    \/ Calendar_init /\ UNCHANGED <<ivars, avars, kvars>>
    \/ generate_dates_loop /\ UNCHANGED <<ivars, avars, kvars>>
    \/ generate_dates_return /\ UNCHANGED <<ivars, avars, kvars>>
    \/ TemporalAccumulator_init /\ UNCHANGED kvars
    \/ TemporalAccumulator_calendar /\ UNCHANGED kvars
    \/ TemporalAccumulator_calendar_raised /\ UNCHANGED kvars

SpecAccumulator == InitAccumulator /\ [][NextAccumulator]_vars

\* ------------------------------------------------------------------------
\* Claims about Interval.next (SpecInterval)
\* ------------------------------------------------------------------------

Supported == interval.unit \in TemporalBaseUnits

\* C1: for every supported unit, every scalar >= 1 and every date d, the
\* call next(d) returns a date strictly greater than d.
C1_NextIsLater ==
    \A i \in DOMAIN next_dates :
        Supported =>
            /\ next_dates[i].exc = ""
            /\ DateLess(from_dates[i], next_dates[i].value)

\* A Months step from December that lands in the next year.
C1_Witness ==
    \E i \in DOMAIN next_dates :
        /\ interval.unit = "Months"
        /\ from_dates[i].month = 12
        /\ next_dates[i].exc = ""
        /\ next_dates[i].value.year = from_dates[i].year + 1

\* The length of a month by the leap year rule the claim states.
DaysInTargetMonth(y, m) ==
    IF m = 2
    THEN (IF (y % 4 = 0 /\ y % 100 # 0) \/ y % 400 = 0 THEN 29 ELSE 28)
    ELSE IF m \in {4, 6, 9, 11} THEN 30 ELSE 31

MinOf(a, b) == IF a <= b THEN a ELSE b

\* C2: a Months step lands scalar months later, with carry into the year,
\* and a Years step scalar years later in the same month; either keeps the
\* time of day and sets the day to min(d.day, days in the target month),
\* February having 29 days exactly in a leap target year.
C2_TargetMonthAndClampedDay ==
    \A i \in DOMAIN next_dates :
        LET d == from_dates[i]
            r == next_dates[i].value
        IN  /\ interval.unit = "Months" =>
                /\ next_dates[i].exc = ""
                /\ r.year * 12 + (r.month - 1) = d.year * 12 + (d.month - 1) + interval.scalar
                /\ r.month \in 1..12
                /\ r.day = MinOf(d.day, DaysInTargetMonth(r.year, r.month))
                /\ r.ms = d.ms
            /\ interval.unit = "Years" =>
                /\ next_dates[i].exc = ""
                /\ r.year = d.year + interval.scalar
                /\ r.month = d.month
                /\ r.day = MinOf(d.day, DaysInTargetMonth(r.year, r.month))
                /\ r.ms = d.ms

\* Two months from 31 December: 29 February 2000 and 28 February 2100.
C2_Witness ==
    /\ interval = [unit |-> "Months", scalar |-> 2]
    /\ Len(next_dates) = 2
    /\ from_dates[1] = MkDate(1999, 12, 31, 0)
    /\ next_dates[1] = Returns(MkDate(2000, 2, 29, 0))
    /\ from_dates[2] = MkDate(2099, 12, 31, 0)
    /\ next_dates[2] = Returns(MkDate(2100, 2, 28, 0))

BothCalled == Len(next_dates) = 2 /\ next_dates[1].exc = "" /\ next_dates[2].exc = ""

\* C3 as claimed: for a supported unit and d1 < d2, next(d1) < next(d2).
C3_StrictlyMonotonic ==
    (BothCalled /\ Supported /\ DateLess(from_dates[1], from_dates[2]))
        => DateLess(next_dates[1].value, next_dates[2].value)

SameDay(a, b) == a.year = b.year /\ a.month = b.month /\ a.day = b.day

\* C3 as amended: for d1 < d2, next(d1) < next(d2) under the units
\* Milliseconds to Weeks; under Months and Years the calendar day of
\* next(d1) is not after that of next(d2), and next(d1) < next(d2) when
\* neither result's day of the month was clamped.
C3_MonotonicUpToClamping ==
    (BothCalled /\ Supported /\ DateLess(from_dates[1], from_dates[2])) =>
        LET r1 == next_dates[1].value
            r2 == next_dates[2].value
        IN  /\ interval.unit \in FixedUnits => DateLess(r1, r2)
            /\ interval.unit \in {"Months", "Years"} =>
                /\ SameDay(r1, r2) \/ DateLess(r1, r2)
                /\ (r1.day = from_dates[1].day /\ r2.day = from_dates[2].day)
                       => DateLess(r1, r2)

\* A month from the last millisecond of 30 January and from the first of
\* 31 January: both land on the last day of February, in reverse order.
C3_Witness ==
    /\ BothCalled
    /\ interval.unit = "Months"
    /\ DateLess(from_dates[1], from_dates[2])
    /\ SameDay(next_dates[1].value, next_dates[2].value)
    /\ DateLess(next_dates[2].value, next_dates[1].value)

\* ------------------------------------------------------------------------
\* Claims about Calendar (SpecCalendar)
\* ------------------------------------------------------------------------

\* C4: for start <= end the series begins with start, each instant is one
\* day after the one before, none is after end, the one after the last
\* would be, end is the last when end - start is a whole number of days;
\* start = end gives one instant and end one day after start gives two.
C4_DailyRange ==
    (cpc = "done" /\ DateLeq(start, end)) =>
        /\ Len(series) >= 1
        /\ series[1] = start
        /\ \A i \in 1..(Len(series) - 1) :
              /\ ToOrdinal(series[i + 1]) = ToOrdinal(series[i]) + 1
              /\ series[i + 1].ms = series[i].ms
        /\ \A i \in DOMAIN series : DateLeq(series[i], end)
        /\ \/ ToOrdinal(series[Len(series)]) + 1 > ToOrdinal(end)
           \/ /\ ToOrdinal(series[Len(series)]) + 1 = ToOrdinal(end)
              /\ start.ms > end.ms
        /\ start.ms = end.ms => series[Len(series)] = end
        /\ start = end => Len(series) = 1
        /\ (ToOrdinal(end) = ToOrdinal(start) + 1 /\ start.ms = end.ms) => Len(series) = 2

\* 28 February to 1 March 2024: three instants, the leap day the second.
C4_Witness ==
    /\ cpc = "done"
    /\ start = MkDate(2024, 2, 28, 0)
    /\ end = MkDate(2024, 3, 1, 0)
    /\ series = <<MkDate(2024, 2, 28, 0), MkDate(2024, 2, 29, 0), MkDate(2024, 3, 1, 0)>>

\* Both arguments are dates, and the end is before the start.
EndBeforeStart ==
    /\ AsDatetime(cal_args.start).exc = ""
    /\ AsDatetime(cal_args.end).exc = ""
    /\ DateLess(AsDatetime(cal_args.end).value, AsDatetime(cal_args.start).value)

\* C5: with end < start the construction raises nothing, the loop takes no
\* turn (at its test only the return can follow), and the series is empty.
C5_EmptyWhenEndBeforeStart ==
    (cpc # "idle" /\ EndBeforeStart) =>
        /\ cpc \in {"new", "loop", "done"}
        /\ cexc = ""
        /\ dates = <<>>
        /\ cpc = "loop" => (ENABLED generate_dates_return /\ ~ENABLED generate_dates_loop)
        /\ cpc = "done" => series = <<>>

C5_Witness ==
    /\ cpc = "done"
    /\ DateLess(end, start)
    /\ ToOrdinal(start) = ToOrdinal(end) + 2
    /\ series = <<>>

\* ------------------------------------------------------------------------
\* Claims about categorize (SpecCategorize)
\* ------------------------------------------------------------------------

Keys(d) == [i \in DOMAIN d.items |-> d.items[i].key]

\* One or more category dimensions, all of one length.
EqualLengthDimensions ==
    /\ Len(catagories) >= 1
    /\ \A j \in DOMAIN catagories : Len(catagories[j].series) = Len(catagories[1].series)

\* The rows (counted from 1, in row order) whose first Len(prefix) values
\* are those of prefix.
RowsUnder(prefix) ==
    LET Under(r) == \A j \in DOMAIN prefix : catagories[j].series[r] = prefix[j]
    IN  SelectSeq([r \in 1..Len(catagories[1].series) |-> r], Under)

\* s without the repetitions of a value seen before.
RECURSIVE FirstSeen(_)
FirstSeen(s) ==
    IF s = <<>>
    THEN <<>>
    ELSE LET front == FirstSeen(SubSeq(s, 1, Len(s) - 1))
         IN  IF s[Len(s)] \in Range(front) THEN front ELSE Append(front, s[Len(s)])

\* Below prefix, node's keys are the values of the next dimension on the
\* rows under prefix, in first-seen order, and so on under each key; a
\* node under a full path has no keys.
RECURSIVE GroupedFrom(_, _)
GroupedFrom(node, prefix) ==
    /\ node.type = "dict"
    /\ IF Len(prefix) = Len(catagories)
       THEN node.items = <<>>
       ELSE /\ Keys(node) =
                  FirstSeen([n \in DOMAIN RowsUnder(prefix) |->
                                catagories[Len(prefix) + 1].series[RowsUnder(prefix)[n]]])
            /\ \A i \in DOMAIN node.items :
                  GroupedFrom(node.items[i].value, Append(prefix, node.items[i].key))

\* C6: with k >= 1 category dimensions of one length, categorize returns a
\* tree of depth k whose keys at depth i are the i-th dimension's values on
\* the rows of the path above, in first-seen row order.
C6_TreeInFirstSeenOrder ==
    (kpc = "done" /\ EqualLengthDimensions) => GroupedFrom(grouping, <<>>)

\* ["a","a","b"] and ["x","y","x"]: keys a, b, and x, y under a.
C6_Witness ==
    /\ kpc = "done"
    /\ Len(catagories) = 2
    /\ catagories[1].series = <<"a", "a", "b">>
    /\ catagories[2].series = <<"x", "y", "x">>
    /\ Keys(grouping) = <<"a", "b">>
    /\ Keys(grouping.items[1].value) = <<"x", "y">>
    /\ Keys(grouping.items[2].value) = <<"x">>

\* The key paths of length n from node, and the value at the end of one.
RECURSIVE PathsFrom(_, _)
PathsFrom(node, n) ==
    IF n = 0
    THEN {<<>>}
    ELSE UNION {{<<node.items[i].key>> \o q : q \in PathsFrom(node.items[i].value, n - 1)} :
                   i \in DOMAIN node.items}

RECURSIVE ValueAt(_, _)
ValueAt(node, path) ==
    IF path = <<>>
    THEN node
    ELSE ValueAt(node.items[KeyIndex(node, Head(path))].value, Tail(path))

\* C7: after categorize with one or more category dimensions, the leaf
\* under each full key path is the list of the row positions (from 0) whose
\* values are that path, and every row position is in a leaf.
C7_LeavesHoldRowPositions ==
    (kpc = "done" /\ EqualLengthDimensions) =>
        /\ \A p \in PathsFrom(grouping, Len(catagories)) :
              ValueAt(grouping, p) =
                  PyList([n \in DOMAIN RowsUnder(p) |-> RowsUnder(p)[n] - 1])
        /\ \A r \in 1..Len(catagories[1].series) :
              \E p \in PathsFrom(grouping, Len(catagories)) :
                  (r - 1) \in Range(ValueAt(grouping, p).items)

\* ------------------------------------------------------------------------
\* Claims about TemporalAccumulator (SpecAccumulator)
\* ------------------------------------------------------------------------

Constructed == apc \in {"done", "raised"}

\* A category or quantity series given to the constructor differs in
\* length from the temporal dimension.
LengthMismatch ==
    \/ \E j \in DOMAIN ta_args.catagories.list :
          Len(ta_args.catagories.list[j].series) # Len(ta_args.temporal_dimension.series)
    \/ \E j \in DOMAIN ta_args.quantities.list :
          Len(ta_args.quantities.list[j].series) # Len(ta_args.temporal_dimension.series)

\* C8: with series of unequal length the construction fails and no output
\* series is produced.  Any exception raised counts as the failure: the
\* source defines no DimensionLengthMismatch of its own.
C8_MismatchFailsFast ==
    (Constructed /\ LengthMismatch) =>
        /\ apc = "raised"
        /\ aexc # ""
        /\ processed_data = Unset

AllDatetimes(s) == \A i \in DOMAIN s : s[i].form = "datetime"

\* The sum of the quantities q of the rows whose instant is in a bucket at
\* or before the daily bucket that starts at b.
RECURSIVE SumThrough(_, _, _, _)
SumThrough(t, q, first, b) ==
    IF t = <<>>
    THEN 0
    ELSE SumThrough(Tail(t), Tail(q), first, b)
         + (IF DateLeq(first, Head(t).dt) /\ DateLess(Head(t).dt, DateAdd(b, 1, 0).value)
            THEN Head(q) ELSE 0)

RECURSIVE Flattened(_)
Flattened(items) ==
    IF items = <<>> THEN <<>> ELSE Head(items).series \o Flattened(Tail(items))

\* The instants of s are in chronological order.
Chronological(s) == \A i, j \in DOMAIN s : i <= j => DateLeq(s[i].dt, s[j].dt)

\* One CumulativeSum quantity, as long as the temporal dimension, whose
\* instants are in chronological order, and no categories.
CumulativeSumGiven ==
    /\ ta_args.quantities.form = "DataSeries"
    /\ ta_args.quantities.list[1].aggregation = "CumulativeSum"
    /\ Len(ta_args.quantities.list[1].series) = Len(ta_args.temporal_dimension.series)
    /\ ta_args.catagories.form = "None"
    /\ AllDatetimes(ta_args.temporal_dimension.series)
    /\ Chronological(ta_args.temporal_dimension.series)

\* C9: with a CumulativeSum quantity and no categories, the output holds
\* for each daily bucket the sum of the quantities observed in that bucket
\* and in the earlier ones: [1,2,3] on three consecutive days gives [1,3,6].
C9_CumulativeSumOutput ==
    (apc = "done" /\ CumulativeSumGiven) =>
        /\ processed_data.type = "list"
        /\ Flattened(processed_data.items) =
              [i \in DOMAIN calendar[1].series |->
                  SumThrough(ta_args.temporal_dimension.series,
                             ta_args.quantities.list[1].series,
                             calendar[1].series[1], calendar[1].series[i])]

\* The earliest and the latest instant of a series of datetimes.
MinDate(s) == (CHOOSE i \in DOMAIN s : \A j \in DOMAIN s : DateLeq(s[i].dt, s[j].dt))

MaxDate(s) == (CHOOSE i \in DOMAIN s : \A j \in DOMAIN s : DateLeq(s[j].dt, s[i].dt))

\* The daily instants from a to b.
DailyRange(a, b) ==
    [i \in 1..(ToOrdinal(b) - ToOrdinal(a) + (IF b.ms >= a.ms THEN 1 ELSE 0)) |->
        OrdDate(ToOrdinal(a) + i - 1, a.ms)]

\* C10: with no calendar given, self.calendar is the daily range from the
\* least to the greatest instant of the temporal dimension, whatever the
\* order of its entries.
C10_DefaultCalendarSpansMinMax ==
    (apc = "done" /\ ta_args.calendar = "None"
       /\ AllDatetimes(ta_args.temporal_dimension.series)) =>
        LET s == ta_args.temporal_dimension.series
            lo == s[MinDate(s)].dt
            hi == s[MaxDate(s)].dt
        IN  calendar = <<[start |-> lo, end |-> hi, series |-> DailyRange(lo, hi)]>>

====
